---- MODULE Spec2Model ----
(***************************************************************************)
(* The tactic trainer's move selector (TacticsEngine.play_move), the       *)
(* tactic record (Tactic), the breadth-first tactic search and the game    *)
(* loop of main.py that drives them (engine move, human click, undo,       *)
(* reset).                                                                 *)
(*                                                                         *)
(* The chess rules engine (python-chess) and the evaluation oracle         *)
(* (Stockfish) are external.  A position is the sequence of moves played   *)
(* from the starting position; a move is a number that also tells which    *)
(* colour plays it; the oracle answers every query with any well-formed    *)
(* analysis (lines ordered best first for the side to move); the four      *)
(* position detectors answer any subset of "fired".  The detectors         *)
(* themselves (class TacticSearch) are modelled on small boards of one or  *)
(* two files.                                                              *)
(***************************************************************************)
EXTENDS Integers, Sequences, FiniteSets, TLC

VARIABLES
    board,          \* ChessGame.board / TacticsEngine.board (one shared object)
    player_colour,  \* ChessGame.player_colour
    difficulty,     \* the level given to set_difficulty
    tactic_types,   \* TacticsEngine.tactic_types
    depth_budget,   \* TacticsEngine.max_search_depth, as the instance holds it
    current_tactic, \* TacticsEngine.current_tactic: None or <<record>>
    search_queue,   \* tactic_search's local work queue
    initial_board,  \* tactic_search's local root position
    pc,             \* "idle" | "search" | "error" (an uncaught IndexError)
    caller,         \* the handler that is running tactic_search
    queries,        \* engine.analyse calls of the tactic_search call in progress
    last,           \* what the handler in progress / last finished did
    position,       \* the chess.Board the detectors are called on
    detected        \* what the detectors returned for it

vars == <<board, player_colour, difficulty, tactic_types, depth_budget,
          current_tactic, search_queue, initial_board, pc, caller, queries, last,
          position, detected>>

----------------------------------------------------------------------------
(* Bounds of the model *)

\* a game is over after this many plies
MaxPly == 4
\* TacticsEngine.max_search_depth; the code sets 20, the model scales it
max_search_depth == 2
\* the largest depth budget a search on its own is run with
MaxBudget == 4
\* the squares of the board the detectors' pieces stand on
BoardSquares == 6
\* the files they are arranged in, at most
MaxFiles == 2
\* the pieces on it besides the two kings
MaxExtras == 4

(* Program constants *)

search_pv == 5
err_bound == 50
only_move_bound == 300
MateScore == 100000
MateThreshold == 10000

Checkmate == 0
Fork == 1
AbsolutePin == 2
RelativePin == 3
Skewer == 4

TACTIC_TYPES == {Checkmate, Fork, AbsolutePin, RelativePin, Skewer}

WHITE == TRUE
BLACK == FALSE

\* centipawn values the oracle reports, from the engine's point of view
Scores == {-MateScore, -300, 0, 300, MateScore}

\* the enabled sets the menu is tried with
TypeSets == {{}, {Checkmate, Fork}, TACTIC_TYPES}

None == <<>>
NoMove == 0

----------------------------------------------------------------------------
(* The rules engine, as far as the core uses it *)

Min(a, b) == IF a <= b THEN a ELSE b

\* chess.Board.turn
Turn(b) == (Len(b) % 2 = 0)

\* the moves of the two colours; a move belongs to one colour, as a chess
\* move starts on a square that holds a piece of the side to move
WhiteMoves == {1, 2}
BlackMoves == {3, 4}
MovesOf(colour) == IF colour = WHITE THEN WhiteMoves ELSE BlackMoves

\* the moves that give check, and the one reply the checked side has
CheckMoves == {2, 4}
ForcedReply(colour) == IF colour = WHITE THEN 1 ELSE 3

\* chess.Board.is_game_over()
IsGameOver(b) == Len(b) >= MaxPly

\* chess.Board.legal_moves
LegalMoves(b) ==
    IF IsGameOver(b) THEN {}
    ELSE IF Len(b) > 0 /\ b[Len(b)] \in CheckMoves
         THEN {ForcedReply(Turn(b))}
         ELSE MovesOf(Turn(b))

\* chess.Board.push
Push(b, move) == Append(b, move)

\* two chess.Board.pop() calls
Pop2(b) == SubSeq(b, 1, Len(b) - 2)

----------------------------------------------------------------------------
(* The evaluation oracle: engine.analyse(board, limit, multipv) *)

engine_colour == ~player_colour

RECURSIVE Lines(_, _)
Lines(b, k) ==
    IF k = 0 \/ LegalMoves(b) = {} THEN {<<>>}
    ELSE {<<>>} \cup
         UNION {{<<m>> \o t : t \in Lines(Push(b, m), k - 1)} : m \in LegalMoves(b)}

\* the principal variations of at most k moves that start with move m; a
\* variation ends with the game at the latest
PVs(b, m, k) == {<<m>> \o t : t \in Lines(Push(b, m), k - 1)}

RECURSIVE Orders(_, _)
Orders(S, n) ==
    IF n = 0 THEN {<<>>}
    ELSE UNION {{<<m>> \o t : t \in Orders(S \ {m}, n - 1)} : m \in S}

\* score lists best first for the side to move, seen from the engine's side
RECURSIVE ScoreLists(_, _, _)
ScoreLists(n, engine_turn, bound) ==
    IF n = 0 THEN {<<>>}
    ELSE UNION {{<<s>> \o t : t \in ScoreLists(n - 1, engine_turn, s)} :
                s \in {x \in Scores : IF engine_turn THEN x <= bound ELSE x >= bound}}

\* The analyses of position b with multipv lines asked for.  Only the top
\* line's continuation is ever read by the core; k bounds its length (a
\* caller that reads no continuation passes 1)
Analyses(b, multipv, k) ==
    LET n == Min(multipv, Cardinality(LegalMoves(b)))
        et == (Turn(b) = engine_colour)
    IN UNION {UNION {{[i \in 1..n |->
                          [pv |-> IF i = 1 THEN p ELSE <<o[i]>>, score |-> s[i]]] :
                      p \in PVs(b, o[1], k)} :
                     s \in ScoreLists(n, et, IF et THEN MateScore ELSE -MateScore)} :
              o \in Orders(LegalMoves(b), n)}

\* what the history keeps of an analysis: first moves and scores
Heads(a) == [i \in 1..Len(a) |-> [move |-> a[i].pv[1], score |-> a[i].score]]

----------------------------------------------------------------------------
(* set_difficulty *)

num_pv == IF difficulty = 0 THEN 7 ELSE IF difficulty = 1 THEN 5 ELSE 3
min_bound == IF difficulty = 0 THEN -600 ELSE IF difficulty = 1 THEN -350 ELSE -300
forcing_bound == IF difficulty = 0 THEN 300 ELSE 200

----------------------------------------------------------------------------
(* class Tactic *)

Tactic(sequence, score, type) ==
    [sequence |-> sequence, type |-> type, score |-> score,
     index |-> 0, max_index |-> Len(sequence) - 1]

\* sequence[index] raises IndexError when index is past the end
CanNext(t) == t.index < Len(t.sequence)

\* next_move: the move returned and the record afterwards
NextMoveOf(t) == t.sequence[t.index + 1]

\* next_move overwriting the move it hands out
next_move_erases(t) ==
    [t EXCEPT !.index = @ + 1, !.sequence[t.index + 1] = NoMove]

next_move(t) == [t EXCEPT !.index = @ + 1]

hint_move(t) == t.sequence[t.index + 1]

\* moves_left with a division that rounds toward zero
moves_left_truncating(t) ==
    LET n == t.max_index - t.index
    IN (IF n >= 0 THEN n \div 2 ELSE -((-n) \div 2)) + 1

\* Python's // rounds down, as \div does
moves_left(t) == ((t.max_index - t.index) \div 2) + 1

Completed(t) == t.index > t.max_index

----------------------------------------------------------------------------
(* TacticsEngine: move selection *)

\* only_move with the margin taken strictly
only_move_strict(analysis, best_score) ==
    IF Len(analysis) = 1 THEN analysis[1].pv[1]
    ELSE IF best_score > analysis[2].score + only_move_bound
         THEN analysis[1].pv[1]
         ELSE NoMove

\* only_move: the obvious move, or NoMove for Python's None
only_move(analysis, best_score) ==
    IF Len(analysis) = 1 THEN analysis[1].pv[1]
    ELSE IF best_score >= analysis[2].score + only_move_bound
         THEN analysis[1].pv[1]
         ELSE NoMove

\* the loop of _select_normal_move from line i on
RECURSIVE NormalScan(_, _)
NormalScan(analysis, i) ==
    IF analysis[i].score <= 0 \/ i = Len(analysis)
    THEN analysis[i].pv[1]
    ELSE NormalScan(analysis, i + 1)

\* _select_normal_move stopping only at a negative score
RECURSIVE NegativeScan(_, _)
NegativeScan(analysis, i) ==
    IF analysis[i].score < 0 \/ i = Len(analysis)
    THEN analysis[i].pv[1]
    ELSE NegativeScan(analysis, i + 1)

select_first_negative(analysis) == NegativeScan(analysis, 1)

select_normal_move(analysis) == NormalScan(analysis, 1)

\* the mate test against the saturated mate score instead of the threshold
MateBeyondMateScore(best_score) == best_score > MateScore

\* the mate test of play_move
MateForEngine(best_score) == best_score > MateThreshold

\* _handle_click ending the record only when it is used up
click_ends_when_used_up(t, move) == Completed(next_move(t))

\* _handle_click with a record whose next move is there: end_tactic is called
\* when the human's move is not the expected one or the record is used up
click_ends_tactic(t, move) ==
    NextMoveOf(t) # move \/ Completed(next_move(t))

\* undo_tactic_move without its cursor tests
undo_always_rewinds(t) == <<[t EXCEPT !.index = @ - 2]>>

\* undo_tactic_move rewinding one ply
undo_rewinds_one(t) ==
    IF t.index >= 2 THEN <<[t EXCEPT !.index = @ - 1]>>
    ELSE None

\* undo_tactic_move keeping the record when the cursor is 1
undo_keeps_at_one(t) ==
    IF t.index >= 2 THEN <<[t EXCEPT !.index = @ - 2]>>
    ELSE IF t.index = 1 THEN <<[t EXCEPT !.index = 0]>>
    ELSE None

\* undo_tactic_move: current_tactic afterwards (None: end_tactic was called)
undo_tactic_move(t) ==
    IF t.index >= 2 THEN <<[t EXCEPT !.index = @ - 2]>>
    ELSE None

----------------------------------------------------------------------------
(* TacticsEngine: tactic search *)

\* a queue entry that forgets its depth
NodeAtDepthZero(b, depth, sequence) == [board |-> b, depth |-> 0, sequence |-> sequence]

Node(b, depth, sequence) == [board |-> b, depth |-> depth, sequence |-> sequence]

\* tactic_search up to its loop; the root is the engine's board as it is now
SearchRoot(b) == b
StartQueue(b) == <<Node(SearchRoot(b), 0, <<>>)>>

\* multipv asked for at a node
NodePV(b, depth) ==
    IF depth = 0 /\ Turn(b) = engine_colour THEN Cardinality(LegalMoves(b))
    ELSE IF Turn(b) = engine_colour THEN Min(Cardinality(LegalMoves(b)), search_pv)
    ELSE Min(Cardinality(LegalMoves(b)), 2)

\* the acceptance test with the root's bound taken relative to the best score
EngineAcceptsRelative(depth, score, best_score) ==
    IF depth = 0 THEN score >= best_score + min_bound
    ELSE score >= best_score - err_bound

\* the acceptance test of _process_engine_moves for one line
EngineAccepts(depth, score, best_score) ==
    IF depth = 0 THEN score >= min_bound
    ELSE score >= best_score - err_bound

RECURSIVE EngineScan(_, _, _, _, _, _, _)
EngineScan(b, depth, sequence, analysis, queue, best_score, i) ==
    IF i > Len(analysis) THEN queue
    ELSE LET move == analysis[i].pv[1]
             q2 == IF EngineAccepts(depth, analysis[i].score, best_score)
                   THEN Append(queue, Node(Push(b, move), depth + 1,
                                           Append(sequence, move)))
                   ELSE queue
         IN EngineScan(b, depth, sequence, analysis, q2, best_score, i + 1)

\* the accepted successors put in front of the queue (a stack)
process_engine_moves_in_front(b, depth, sequence, analysis, queue, best_score) ==
    EngineScan(b, depth, sequence, analysis, <<>>, best_score, 1) \o queue

process_engine_moves(b, depth, sequence, analysis, queue, best_score) ==
    EngineScan(b, depth, sequence, analysis, queue, best_score, 1)

\* a single line counted as a clear best move whatever its score
best_move_clear_single(analysis, best_score) ==
    IF Len(analysis) = 1 THEN TRUE
    ELSE best_score <= analysis[2].score - forcing_bound

best_move_clear(analysis, best_score) ==
    IF Len(analysis) = 1 THEN best_score <= -forcing_bound
    ELSE best_score <= analysis[2].score - forcing_bound

\* _position_tactic_check asking every detector, enabled or not
position_check_any_kind(hits) ==
    IF Fork \in hits THEN Fork
    ELSE IF Skewer \in hits THEN Skewer
    ELSE IF AbsolutePin \in hits THEN AbsolutePin
    ELSE IF RelativePin \in hits THEN RelativePin
    ELSE -1

\* _position_tactic_check; hits: the detectors that report a square
position_tactic_check(hits) ==
    IF Fork \in tactic_types /\ Fork \in hits THEN Fork
    ELSE IF Skewer \in tactic_types /\ Skewer \in hits THEN Skewer
    ELSE IF AbsolutePin \in tactic_types /\ AbsolutePin \in hits THEN AbsolutePin
    ELSE IF RelativePin \in tactic_types /\ RelativePin \in hits THEN RelativePin
    ELSE -1

\* what the four detectors can answer on a position: the kinds that report
Detections == SUBSET {Fork, Skewer, AbsolutePin, RelativePin}

\* the record built from the node's moves alone, without the best move
process_player_moves_short(b, depth, sequence, analysis, queue, best_score, hits) ==
    IF ~best_move_clear(analysis, best_score)
    THEN [queue |-> queue, tactic |-> None, error |-> FALSE]
    ELSE IF position_tactic_check(hits) >= 0
    THEN [queue |-> <<>>,
          tactic |-> <<Tactic(sequence, analysis[1].score,
                              position_tactic_check(hits))>>,
          error |-> FALSE]
    ELSE [queue |-> Append(queue, Node(Push(b, analysis[1].pv[1]), depth + 1,
                                       Append(sequence, analysis[1].pv[1]))),
          tactic |-> None, error |-> FALSE]

\* _process_player_moves: the queue returned, the record installed (None: no
\* record), and whether pv[1] raised IndexError
process_player_moves(b, depth, sequence, analysis, queue, best_score, hits) ==
    IF ~best_move_clear(analysis, best_score)
    THEN [queue |-> queue, tactic |-> None, error |-> FALSE]
    ELSE LET pv == analysis[1].pv
             best_move == pv[1]
             tactic_type == position_tactic_check(hits)
         IN IF Len(analysis) > 1 /\ Len(pv) < 2
            THEN [queue |-> queue, tactic |-> None, error |-> TRUE]
            ELSE IF tactic_type >= 0
            THEN [queue |-> <<>>,
                  tactic |-> <<Tactic(Append(sequence, best_move),
                                      analysis[1].score, tactic_type)>>,
                  error |-> FALSE]
            ELSE [queue |-> Append(queue, Node(Push(b, best_move), depth + 1,
                                               Append(sequence, best_move))),
                  tactic |-> None, error |-> FALSE]

----------------------------------------------------------------------------
(* The board the detectors look at: a small board of BoardSquares squares  *)
(* in one or more files.  The squares are numbered as python-chess numbers *)
(* them, rank by rank from White's side and along each rank from the first *)
(* file, so that scanning in reverse is scanning from the highest number   *)
(* down.  A chess.Board is the placement, the side to move and the move    *)
(* stack; a stack entry keeps the placement to pop to.                     *)

Squares == 1..BoardSquares

\* the boards: as many files as divide the squares evenly
Widths == {w \in 1..MaxFiles : BoardSquares % w = 0}

PieceTypes == {"P", "N", "B", "R", "Q", "K"}

PIECE_VALUES ==
    [t \in PieceTypes |->
        CASE t = "P" -> 100 [] t = "N" -> 300 [] t = "B" -> 300
          [] t = "R" -> 500 [] t = "Q" -> 900 [] t = "K" -> 20000]

Piece(t, c) == [piece_type |-> t, color |-> c]
NoPiece == [piece_type |-> "none", color |-> WHITE]

\* Python's None for a square and for the follow-up move
NoSquare == 0
NoNextMove == [from_square |-> NoSquare, to_square |-> NoSquare]

Move(f, t) == [from_square |-> f, to_square |-> t]

Max(S) == CHOOSE x \in S : \A y \in S : y <= x

Abs(x) == IF x < 0 THEN -x ELSE x

\* chess.square_file, chess.square_rank (from 0) on a board of w files
square_file(w, s) == (s - 1) % w
square_rank(w, s) == (s - 1) \div w
FileDistance(w, s, t) == Abs(square_file(w, s) - square_file(w, t))
RankDistance(w, s, t) == Abs(square_rank(w, s) - square_rank(w, t))

\* chess.BB_FILE_ATTACKS[s][0], BB_RANK_ATTACKS[s][0], BB_DIAG_ATTACKS[s][0]:
\* the other squares of the file, the rank, the diagonals through s
BB_FILE_ATTACKS ==
    [w \in Widths |-> [s \in Squares |->
        {t \in Squares \ {s} : FileDistance(w, s, t) = 0}]]
BB_RANK_ATTACKS ==
    [w \in Widths |-> [s \in Squares |->
        {t \in Squares \ {s} : RankDistance(w, s, t) = 0}]]
BB_DIAG_ATTACKS ==
    [w \in Widths |-> [s \in Squares |->
        {t \in Squares \ {s} : FileDistance(w, s, t) = RankDistance(w, s, t)}]]

\* chess.BB_KING_ATTACKS, BB_KNIGHT_ATTACKS, BB_PAWN_ATTACKS[colour]
BB_KING_ATTACKS ==
    [w \in Widths |-> [s \in Squares |->
        {t \in Squares \ {s} :
            FileDistance(w, s, t) <= 1 /\ RankDistance(w, s, t) <= 1}]]
BB_KNIGHT_ATTACKS ==
    [w \in Widths |-> [s \in Squares |->
        {t \in Squares : {FileDistance(w, s, t), RankDistance(w, s, t)} = {1, 2}}]]
BB_PAWN_ATTACKS ==
    [colour \in {WHITE, BLACK} |-> [w \in Widths |-> [s \in Squares |->
        {t \in Squares :
            /\ FileDistance(w, s, t) = 1
            /\ square_rank(w, t) - square_rank(w, s)
                 = (IF colour = WHITE THEN 1 ELSE -1)}]]]

\* chess.between: the squares strictly between two squares of one line
BB_BETWEEN ==
    [w \in Widths |-> [a \in Squares |-> [c \in Squares |->
        {s \in Squares \ {a, c} :
            /\ \/ c \in BB_FILE_ATTACKS[w][a] /\ s \in BB_FILE_ATTACKS[w][a]
               \/ c \in BB_RANK_ATTACKS[w][a] /\ s \in BB_RANK_ATTACKS[w][a]
               \/ c \in BB_DIAG_ATTACKS[w][a] /\ s \in BB_DIAG_ATTACKS[w][a]
            /\ FileDistance(w, a, s) + FileDistance(w, s, c) = FileDistance(w, a, c)
            /\ RankDistance(w, a, s) + RankDistance(w, s, c) = RankDistance(w, a, c)}]]]

between(b, a, c) == BB_BETWEEN[b.files][a][c]

\* two squares on one file, one rank, one diagonal
OnFile(b, s, t) == t \in BB_FILE_ATTACKS[b.files][s]
OnRank(b, s, t) == t \in BB_RANK_ATTACKS[b.files][s]
OnDiag(b, s, t) == t \in BB_DIAG_ATTACKS[b.files][s]

\* board.piece_at, board.occupied, board.occupied_co[colour]
piece_at(b, s) == b.at[s]
occupied(b) == {s \in Squares : b.at[s] # NoPiece}
occupied_co(b, colour) == {s \in occupied(b) : b.at[s].color = colour}
kings(b) == {s \in occupied(b) : b.at[s].piece_type = "K"}
pawns(b) == {s \in occupied(b) : b.at[s].piece_type = "P"}
\* board.rooks | board.queens, board.bishops | board.queens
sliders(b) == {s \in occupied(b) : b.at[s].piece_type \in {"R", "Q"}}
diagonal_sliders(b) == {s \in occupied(b) : b.at[s].piece_type \in {"B", "Q"}}

\* board.king(colour)
king(b, colour) == CHOOSE s \in kings(b) : b.at[s].color = colour

\* the squares of S that nothing stands between s and
Unblocked(b, s, S) == {t \in S : between(b, s, t) \cap occupied(b) = {}}

\* board.attacks(square): the squares the piece on it attacks
attacks(b, s) ==
    LET p == b.at[s]
        w == b.files
    IN CASE p.piece_type = "K" -> BB_KING_ATTACKS[w][s]
         [] p.piece_type = "N" -> BB_KNIGHT_ATTACKS[w][s]
         [] p.piece_type = "P" -> BB_PAWN_ATTACKS[p.color][w][s]
         [] p.piece_type = "R" ->
              Unblocked(b, s, BB_FILE_ATTACKS[w][s] \cup BB_RANK_ATTACKS[w][s])
         [] p.piece_type = "B" -> Unblocked(b, s, BB_DIAG_ATTACKS[w][s])
         [] p.piece_type = "Q" ->
              Unblocked(b, s, BB_FILE_ATTACKS[w][s] \cup BB_RANK_ATTACKS[w][s]
                                \cup BB_DIAG_ATTACKS[w][s])
         [] OTHER -> {}

\* board.attackers(colour, square), board.is_attacked_by(colour, square)
attackers(b, colour, s) == {a \in occupied_co(b, colour) : s \in attacks(b, a)}
is_attacked_by(b, colour, s) == attackers(b, colour, s) # {}

\* board.push(move), board.copy() followed by pop()
push(b, m) ==
    [b EXCEPT !.at = [b.at EXCEPT ![m.to_square] = b.at[m.from_square],
                                  ![m.from_square] = NoPiece],
              !.turn = ~b.turn,
              !.move_stack = Append(b.move_stack, [move |-> m, before |-> b.at])]

pop(b) ==
    [b EXCEPT !.at = b.move_stack[Len(b.move_stack)].before,
              !.turn = ~b.turn,
              !.move_stack = SubSeq(b.move_stack, 1, Len(b.move_stack) - 1)]

\* board.peek()
peek(b) == b.move_stack[Len(b.move_stack)].move

\* the moves the rules allow the side to move on this board: a piece moves
\* where it attacks, a pawn advances one square or captures, short of the
\* first and last rank; no move lands on a piece of its own side or on a king
PseudoLegal(b) ==
    {m \in {Move(f, t) : f \in occupied_co(b, b.turn), t \in Squares} :
        LET p == b.at[m.from_square]
            q == b.at[m.to_square]
            ahead == square_rank(b.files, m.to_square)
                       - square_rank(b.files, m.from_square)
                       = (IF p.color = WHITE THEN 1 ELSE -1)
        IN /\ q = NoPiece \/ (q.color # b.turn /\ q.piece_type # "K")
           /\ IF p.piece_type = "P"
              THEN /\ square_rank(b.files, m.to_square)
                        \notin {0, BoardSquares \div b.files - 1}
                   /\ \/ q = NoPiece /\ ahead /\ OnFile(b, m.from_square, m.to_square)
                      \/ q # NoPiece /\ m.to_square \in attacks(b, m.from_square)
              ELSE m.to_square \in attacks(b, m.from_square)}

\* board.legal_moves: the mover's king is not left attacked
legal_moves(b) ==
    {m \in PseudoLegal(b) :
        LET n == push(b, m)
        IN ~is_attacked_by(n, n.turn, king(n, b.turn))}

----------------------------------------------------------------------------
(* class TacticSearch *)

\* the pin mask shared by absolute_pinner and relative_pinner: the file, the
\* rank and the diagonals through `anchor` are tried in turn, the first that
\* holds `square` decides; on it the enemy slider of that kind that has only
\* `square` between itself and `anchor`, or NoSquare
Pinner(b, colour, square, anchor) ==
    LET own == IF OnFile(b, anchor, square) \/ OnRank(b, anchor, square)
               THEN sliders(b)
               ELSE diagonal_sliders(b)
        rays == IF OnFile(b, anchor, square) THEN BB_FILE_ATTACKS[b.files][anchor]
                ELSE IF OnRank(b, anchor, square) THEN BB_RANK_ATTACKS[b.files][anchor]
                ELSE BB_DIAG_ATTACKS[b.files][anchor]
        snipers == rays \cap own \cap occupied_co(b, ~colour)
        found == {sniper \in snipers :
                    between(b, sniper, anchor) \cap (occupied(b) \cup {square})
                        = {square}}
    IN IF ~(OnFile(b, anchor, square) \/ OnRank(b, anchor, square)
              \/ OnDiag(b, anchor, square))
          \/ found = {}
       THEN NoSquare
       ELSE Max(found)

\* absolute_pinner: the anchor is the king of `colour`
absolute_pinner(b, colour, square) == Pinner(b, colour, square, king(b, colour))

\* relative_pinner: the anchor is the piece on `piece`
relative_pinner(b, colour, square, piece) == Pinner(b, colour, square, piece)

Value(b, s) == PIECE_VALUES[b.at[s].piece_type]

\* the tests of the two pin detectors on a pinned piece once its pinner is
\* known: the pinner is worth less, the pinned piece is attacked more often
\* than defended, or it is the needed defender of an attacked piece
GoodPin(b, square, pinning_square) ==
    \/ Value(b, pinning_square) < Value(b, square)
    \/ Cardinality(attackers(b, ~b.turn, square))
         > Cardinality(attackers(b, b.turn, square))
    \/ \E ally \in attacks(b, square) \cap occupied_co(b, b.turn) :
         /\ is_attacked_by(b, ~b.turn, ally)
         /\ Cardinality(attackers(b, ~b.turn, ally) \ {pinning_square})
              > Cardinality(attackers(b, b.turn, ally) \ {square})

\* the follow-up move captures the piece on `square` and nothing defends it
CapturedForFree(b, engine_move, square, guarded) ==
    /\ engine_move # NoNextMove
    /\ engine_move.to_square = square
    /\ attackers(b, ~b.turn, guarded) = {}

\* one pass of absolute_pin's loop: TRUE when it returns [square]
absolute_pin_at(b, engine_move, square) ==
    LET pinning_square == absolute_pinner(b, b.turn, square)
        last_pos_pin == absolute_pinner(pop(b), b.turn, square)
    IN /\ pinning_square # NoSquare /\ last_pos_pin = NoSquare
       /\ ~CapturedForFree(b, engine_move, pinning_square, pinning_square)
       /\ GoodPin(b, square, pinning_square)

\* absolute_pin: the squares are scanned from the highest down
absolute_pin(b, engine_move) ==
    IF b.move_stack = <<>> THEN <<>>
    ELSE LET good == {square \in occupied_co(b, b.turn) \ kings(b) :
                        absolute_pin_at(b, engine_move, square)}
         IN IF good = {} THEN <<>> ELSE <<Max(good)>>

\* one pass of relative_pin's inner loop: TRUE when it returns [pin_square]
relative_pin_at(b, engine_move, valued_square, pin_square) ==
    LET pinning_square == relative_pinner(b, b.turn, pin_square, valued_square)
        last_pos_pin == relative_pinner(pop(b), b.turn, pin_square, valued_square)
    IN /\ valued_square # pin_square
       /\ Value(b, pin_square) <= Value(b, valued_square)
       /\ pinning_square # NoSquare /\ last_pos_pin = NoSquare
       /\ ~CapturedForFree(b, engine_move, pinning_square, pinning_square)
       /\ Value(b, pinning_square) < Value(b, valued_square)
       /\ GoodPin(b, pin_square, pinning_square)

\* relative_pin: valued squares outside, pinnable squares inside, both from
\* the highest down
relative_pin(b, engine_move) ==
    IF b.move_stack = <<>> THEN <<>>
    ELSE LET valued_pieces == occupied_co(b, b.turn) \ (kings(b) \cup pawns(b))
             pinnable_pieces == occupied_co(b, b.turn) \ kings(b)
             Pins(v) == {p \in pinnable_pieces : relative_pin_at(b, engine_move, v, p)}
             good == {v \in valued_pieces : Pins(v) # {}}
         IN IF good = {} THEN <<>> ELSE <<Max(Pins(Max(good)))>>

\* the pass looking for the slider in front of the skewered piece
skewer_at_front(b, engine_move, skewered_square, valued_square) ==
    LET skewering_square ==
            relative_pinner(b, b.turn, skewered_square, valued_square)
    IN IF \/ skewered_square = valued_square
          \/ Value(b, skewered_square) > Value(b, valued_square)
          \/ skewering_square = NoSquare
       THEN "continue"
       ELSE IF Value(b, skewering_square) >= Value(b, valued_square)
       THEN "continue"
       ELSE "found"

\* one pass of skewer's inner loop: "continue", "empty" (return []) or
\* "found" (return [skewered_square])
skewer_at(b, engine_move, skewered_square, valued_square) ==
    LET skewering_square ==
            relative_pinner(b, b.turn, valued_square, skewered_square)
    IN IF \/ skewered_square = valued_square
          \/ Value(b, skewered_square) > Value(b, valued_square)
          \/ skewering_square = NoSquare
       THEN "continue"
       ELSE IF Value(b, skewering_square) >= Value(b, valued_square)
       THEN "continue"
       ELSE IF CapturedForFree(b, engine_move, skewering_square, skewered_square)
       THEN "empty"
       ELSE IF Value(b, skewering_square) < Value(b, skewered_square)
       THEN "found"
       ELSE IF engine_move = NoNextMove
       THEN "found"
       ELSE LET temp_board == push(b, engine_move)
            IN IF Cardinality(attackers(temp_board, temp_board.turn, skewered_square))
                    > Cardinality(attackers(temp_board, ~temp_board.turn,
                                            skewered_square))
               THEN "found"
               ELSE "continue"

\* the pairs of a nested scan, outer and inner squares from the highest down
RECURSIVE Descending(_)
Descending(S) == IF S = {} THEN <<>> ELSE <<Max(S)>> \o Descending(S \ {Max(S)})

ScanPairs(outer, inner) ==
    LET o == Descending(outer)
        i == Descending(inner)
    IN [n \in 1..(Len(o) * Len(i)) |->
            <<o[((n - 1) \div Len(i)) + 1], i[((n - 1) % Len(i)) + 1]>>]

\* skewer: the first pass that does not continue decides
RECURSIVE SkewerScan(_, _, _, _)
SkewerScan(b, engine_move, pairs, n) ==
    IF n > Len(pairs) THEN <<>>
    ELSE LET r == skewer_at(b, engine_move, pairs[n][1], pairs[n][2])
         IN IF r = "found" THEN <<pairs[n][1]>>
            ELSE IF r = "empty" THEN <<>>
            ELSE SkewerScan(b, engine_move, pairs, n + 1)

skewer(b, engine_move) ==
    IF b.move_stack = <<>> THEN <<>>
    ELSE LET valuable_pieces == occupied_co(b, b.turn) \ pawns(b)
             other_pieces == occupied_co(b, b.turn) \ kings(b)
         IN SkewerScan(b, engine_move, ScanPairs(other_pieces, valuable_pieces), 1)

\* the squares of a set in ascending order, as iterating a SquareSet gives
RECURSIVE Ascending(_)
Ascending(S) ==
    IF S = {} THEN <<>>
    ELSE LET lo == CHOOSE x \in S : \A y \in S : x <= y
         IN <<lo>> \o Ascending(S \ {lo})

\* the first loop taking only an undefended piece for a target
ForkTargetUndefended(b, forking_square, square) ==
    \/ b.at[square].piece_type = "K"
    \/ Value(b, square) > Value(b, forking_square)
    \/ attackers(b, b.turn, square) = {}

\* fork's first loop: is the attacked piece on `square` a target
ForkTarget(b, forking_square, square) ==
    \/ b.at[square].piece_type = "K"
    \/ Value(b, square) > Value(b, forking_square)
    \/ Cardinality(attackers(b, ~b.turn, square))
         > Cardinality(attackers(b, b.turn, square))

\* fork's second loop, on the board after the follow-up move
StillForked(temp_board, square) ==
    LET atk == attackers(temp_board, temp_board.turn, square)
        def == attackers(temp_board, ~temp_board.turn, square)
    IN \/ Cardinality(atk) > Cardinality(def)
       \/ \E attacker \in atk : Value(temp_board, attacker) < Value(temp_board, square)

\* fork answering with the targets of the first loop whenever the king is
\* one of them
fork_king_alone(b, engine_move) ==
    IF b.move_stack = <<>> THEN <<>>
    ELSE
    LET to == peek(b).to_square
        attacked_pieces == attacks(b, to) \cap occupied_co(b, b.turn)
        forked_pieces == {s \in attacked_pieces : ForkTarget(b, to, s)}
        king_forked == \E s \in attacked_pieces : b.at[s].piece_type = "K"
    IN IF CapturedForFree(b, engine_move, to, to) THEN <<>>
       ELSE IF Cardinality(forked_pieces) < 2 /\ ~king_forked THEN <<>>
       ELSE Ascending(forked_pieces)

fork(b, engine_move) ==
    IF b.move_stack = <<>> THEN <<>>
    ELSE
    LET forking_move == peek(b)
        to == forking_move.to_square
        attacked_pieces == attacks(b, to) \cap occupied_co(b, b.turn)
        forked_pieces == {s \in attacked_pieces : ForkTarget(b, to, s)}
        king_forked == \E s \in attacked_pieces : b.at[s].piece_type = "K"
    IN IF CapturedForFree(b, engine_move, to, to) THEN <<>>
       ELSE IF Cardinality(attacked_pieces) < 2 THEN <<>>
       ELSE IF Cardinality(forked_pieces) < 2 /\ ~king_forked THEN <<>>
       ELSE IF engine_move = NoNextMove
       THEN IF Cardinality(forked_pieces) < 2 THEN <<>>
            ELSE Ascending(forked_pieces)
       ELSE IF engine_move.from_square \notin attacked_pieces
       THEN Ascending(forked_pieces)
       ELSE LET temp_board == push(b, engine_move)
                moved == IF engine_move.to_square \in attacks(temp_board, to)
                         THEN {engine_move.to_square} ELSE {}
                still == (attacked_pieces \ {engine_move.from_square}) \cup moved
                next_forked_pieces == {s \in still : StillForked(temp_board, s)}
            IN IF Cardinality(next_forked_pieces) < 1 THEN <<>>
               ELSE Ascending(forked_pieces)

\* no board set up, no detector called
NoBoard ==
    [at |-> [s \in Squares |-> NoPiece], turn |-> WHITE, move_stack |-> <<>>,
     files |-> 1]
NoDetection ==
    [called |-> FALSE, next_move |-> NoNextMove, fork |-> <<>>, skewer |-> <<>>,
     absolute_pin |-> <<>>, relative_pin |-> <<>>, type |-> -1]

----------------------------------------------------------------------------
(* History of the handler in progress (or of the last one finished):       *)
(* op: the handler; path: the branch it took; had: a record was Active     *)
(* when it began; an: the oracle's analysis of the position play_move was  *)
(* called in, kept until tactic_search's loop runs; an2: the analysis      *)
(* _select_normal_move read; ret: the move play_move returns; searched:    *)
(* the handler called tactic_search.                                       *)

Hist(op, path, an, ret, searched) ==
    [op |-> op, path |-> path, had |-> (current_tactic # None), an |-> an,
     an2 |-> <<>>, ret |-> ret, searched |-> searched]

\* play_move's analysis is dead once the search loop runs
InLoop(h) == [h EXCEPT !.an = <<>>]

Init ==
    /\ board = <<>>
    /\ player_colour \in {WHITE, BLACK}
    /\ difficulty \in 0..2
    /\ tactic_types \in TypeSets
    /\ depth_budget = max_search_depth
    /\ current_tactic = None
    /\ search_queue = <<>>
    /\ initial_board = <<>>
    /\ pc = "idle"
    /\ caller = "none"
    /\ queries = 0
    /\ last = [op |-> "init", path |-> "init", had |-> FALSE, an |-> <<>>,
               an2 |-> <<>>, ret |-> NoMove, searched |-> FALSE]
    /\ position = NoBoard
    /\ detected = NoDetection

Settings == <<player_colour, difficulty, tactic_types, depth_budget>>

\* the detectors' board is not the game's: the game leaves it alone
Detector == <<position, detected>>

\* the game loop calls _make_engine_move before it reads the events
EngineToMove == Turn(board) # player_colour /\ ~IsGameOver(board)

\* tactic_search begins with handler h as its caller
BeginSearch(b, h) ==
    /\ initial_board' = SearchRoot(b)
    /\ search_queue' = StartQueue(b)
    /\ pc' = "search"
    /\ caller' = h
    /\ queries' = 0

NoSearch ==
    /\ pc' = "idle"
    /\ UNCHANGED <<search_queue, initial_board, caller, queries>>

----------------------------------------------------------------------------
(* _make_engine_move: play_move, then the move is pushed *)

\* play_move with a record: _select_tactic_move
PlayTacticMove ==
    /\ pc = "idle" /\ EngineToMove
    /\ current_tactic # None
    \* a: the oracle's top line here, which this path does not ask for
    /\ \E a \in Analyses(board, 1, 1) :
         LET t == current_tactic[1]
             h == Hist("play_move", "continue", Heads(a), NoMove, FALSE)
         IN IF ~CanNext(t)
            THEN /\ pc' = "error"
                 /\ last' = [h EXCEPT !.path = "IndexError"]
                 /\ UNCHANGED <<board, current_tactic, search_queue,
                                initial_board, caller, queries>>
            ELSE LET t2 == next_move(t)
                     move == NextMoveOf(t)
                 IN IF Completed(t2)
                    THEN \* end_tactic runs before the move is on the board
                         /\ current_tactic' = None
                         /\ BeginSearch(board, "select_tactic")
                         /\ last' = [h EXCEPT !.ret = move, !.searched = TRUE,
                                               !.path = "complete"]
                         /\ UNCHANGED board
                    ELSE /\ current_tactic' = <<t2>>
                         /\ board' = Push(board, move)
                         /\ last' = [h EXCEPT !.ret = move]
                         /\ NoSearch
    /\ UNCHANGED <<Settings, Detector>>

\* play_move without a record: the mate line
PlayMateMove ==
    /\ pc = "idle" /\ EngineToMove
    /\ current_tactic = None
    /\ \E a \in Analyses(board, 2, 1) :
         /\ MateForEngine(a[1].score)
         /\ board' = Push(board, a[1].pv[1])
         /\ last' = Hist("play_move", "mate", Heads(a), a[1].pv[1], FALSE)
    /\ NoSearch
    /\ UNCHANGED <<current_tactic, Settings, Detector>>

\* play_move without a record: the only move
PlayOnlyMove ==
    /\ pc = "idle" /\ EngineToMove
    /\ current_tactic = None
    /\ \E a \in Analyses(board, 2, 1) :
         /\ ~MateForEngine(a[1].score)
         /\ only_move(a, a[1].score) # NoMove
         /\ board' = Push(board, only_move(a, a[1].score))
         /\ last' = Hist("play_move", "only", Heads(a),
                         only_move(a, a[1].score), FALSE)
    /\ NoSearch
    /\ UNCHANGED <<current_tactic, Settings, Detector>>

\* play_move without a record: tactic_search is called
PlaySearch ==
    /\ pc = "idle" /\ EngineToMove
    /\ current_tactic = None
    /\ \E a \in Analyses(board, 2, 1) :
         /\ ~MateForEngine(a[1].score)
         /\ only_move(a, a[1].score) = NoMove
         /\ last' = Hist("play_move", "search", Heads(a), NoMove, TRUE)
    /\ BeginSearch(board, "play_move")
    /\ UNCHANGED <<board, current_tactic, Settings, Detector>>

\* play_move after its search found a record: the first move is consumed
PlayFoundTactic ==
    /\ pc = "search" /\ search_queue = <<>> /\ caller = "play_move"
    /\ current_tactic # None
    /\ LET t == current_tactic[1]
       IN /\ current_tactic' = <<next_move(t)>>
          /\ board' = Push(board, NextMoveOf(t))
          /\ last' = [last EXCEPT !.ret = NextMoveOf(t), !.path = "found"]
    /\ pc' = "idle"
    /\ queries' = 0
    /\ UNCHANGED <<search_queue, initial_board, caller, Settings, Detector>>

\* play_move after its search found nothing: _select_normal_move
PlayNormalMove ==
    /\ pc = "search" /\ search_queue = <<>> /\ caller = "play_move"
    /\ current_tactic = None
    /\ \E a \in Analyses(board, num_pv, 1) :
         /\ board' = Push(board, select_normal_move(a))
         /\ last' = [last EXCEPT !.ret = select_normal_move(a),
                                  !.an2 = Heads(a), !.path = "normal"]
    /\ pc' = "idle"
    /\ queries' = 0
    /\ UNCHANGED <<current_tactic, search_queue, initial_board, caller, Settings, Detector>>

\* _select_tactic_move returns after end_tactic; the move is pushed
PlayCompletingMove ==
    /\ pc = "search" /\ search_queue = <<>> /\ caller = "select_tactic"
    /\ board' = Push(board, last.ret)
    /\ pc' = "idle"
    /\ queries' = 0
    /\ UNCHANGED <<current_tactic, search_queue, initial_board, caller, last,
                   Settings, Detector>>

----------------------------------------------------------------------------
(* tactic_search: one action per pass of its while loop *)

Searching == pc = "search" /\ search_queue # <<>>

\* the base case without its depth test
DroppedAtGameOver(node) == IsGameOver(node.board)

Dropped(node) == node.depth = depth_budget \/ IsGameOver(node.board)

\* the Checkmate test made at every depth
CheckmateAtAnyDepth(node, a) ==
    a[1].score < -MateThreshold /\ Checkmate \in tactic_types

CheckmateFound(node, a) ==
    node.depth = 0 /\ a[1].score < -MateThreshold /\ Checkmate \in tactic_types

\* the base case: the node is discarded
SearchDrop ==
    /\ Searching
    /\ Dropped(Head(search_queue))
    /\ search_queue' = Tail(search_queue)
    /\ last' = InLoop(last)
    /\ UNCHANGED <<board, current_tactic, initial_board, pc, caller, queries,
                   Settings, Detector>>

\* the root's best line is a mate against the engine: a Checkmate record
SearchCheckmate ==
    /\ Searching
    /\ LET node == Head(search_queue)
       IN /\ ~Dropped(node)
          /\ \E a \in Analyses(node.board, NodePV(node.board, node.depth), MaxPly) :
               /\ CheckmateFound(node, a)
               /\ current_tactic' =
                      <<Tactic(node.sequence \o a[1].pv, a[1].score, Checkmate)>>
    /\ search_queue' = <<>>
    /\ queries' = queries + 1
    /\ last' = InLoop(last)
    /\ UNCHANGED <<board, initial_board, pc, caller, Settings, Detector>>

\* an engine-turn node
SearchEngineNode ==
    /\ Searching
    /\ LET node == Head(search_queue)
       IN /\ ~Dropped(node)
          /\ Turn(node.board) = engine_colour
          /\ \E a \in Analyses(node.board, NodePV(node.board, node.depth), 1) :
               /\ ~CheckmateFound(node, a)
               /\ search_queue' =
                      process_engine_moves(node.board, node.depth, node.sequence,
                                           a, Tail(search_queue), a[1].score)
    /\ queries' = queries + 1
    /\ last' = InLoop(last)
    /\ UNCHANGED <<board, current_tactic, initial_board, pc, caller, Settings, Detector>>

\* a human-turn node
SearchPlayerNode ==
    /\ Searching
    /\ LET node == Head(search_queue)
       IN /\ ~Dropped(node)
          /\ Turn(node.board) # engine_colour
          /\ \E a \in Analyses(node.board, NodePV(node.board, node.depth), 2) :
             \E hits \in IF best_move_clear(a, a[1].score) THEN Detections
                         ELSE {{}} :
               LET r == process_player_moves(node.board, node.depth,
                                             node.sequence, a,
                                             Tail(search_queue), a[1].score, hits)
               IN /\ ~CheckmateFound(node, a)
                  /\ search_queue' = r.queue
                  /\ current_tactic' = IF r.tactic # None THEN r.tactic
                                       ELSE current_tactic
                  /\ pc' = IF r.error THEN "error" ELSE pc
    /\ queries' = queries + 1
    /\ last' = InLoop(last)
    /\ UNCHANGED <<board, initial_board, caller, Settings, Detector>>

\* tactic_search returns to _handle_click or _handle_undo
SearchReturn ==
    /\ pc = "search" /\ search_queue = <<>> /\ caller \in {"click", "undo"}
    /\ pc' = "idle"
    /\ queries' = 0
    /\ UNCHANGED <<board, current_tactic, search_queue, initial_board, caller,
                   last, Settings, Detector>>

----------------------------------------------------------------------------
(* The events of the game loop *)

EventsRead == pc = "idle" /\ ~EngineToMove

\* _handle_click completing a legal move of the side to move
HandleClick ==
    /\ EventsRead
    /\ \E move \in LegalMoves(board) :
         LET h == Hist("click", "correct", <<>>, NoMove, FALSE)
         IN /\ board' = Push(board, move)
            /\ IF current_tactic = None
               THEN /\ last' = [h EXCEPT !.path = "plain"]
                    /\ NoSearch
                    /\ UNCHANGED current_tactic
               ELSE LET t == current_tactic[1]
                    IN IF ~CanNext(t)
                       THEN /\ pc' = "error"
                            /\ last' = [h EXCEPT !.path = "IndexError"]
                            /\ UNCHANGED <<current_tactic, search_queue,
                                           initial_board, caller, queries>>
                       ELSE IF click_ends_tactic(t, move)
                       THEN \* end_tactic
                            /\ current_tactic' = None
                            /\ BeginSearch(Push(board, move), "click")
                            /\ last' = [h EXCEPT !.searched = TRUE,
                                                  !.path = IF NextMoveOf(t) # move
                                                           THEN "deviate"
                                                           ELSE "complete"]
                       ELSE /\ current_tactic' = <<next_move(t)>>
                            /\ last' = h
                            /\ NoSearch
    /\ UNCHANGED <<Settings, Detector>>

\* _handle_undo with at least two moves on the stack
HandleUndo ==
    /\ EventsRead
    /\ Len(board) >= 2
    /\ board' = Pop2(board)
    /\ LET h == Hist("undo", "rewind", <<>>, NoMove, FALSE)
           after == IF current_tactic = None THEN None
                    ELSE undo_tactic_move(current_tactic[1])
       IN /\ current_tactic' = after
          /\ IF after = None
             THEN /\ BeginSearch(Pop2(board), "undo")
                  /\ last' = [h EXCEPT !.searched = TRUE, !.path = "discard"]
             ELSE /\ NoSearch
                  /\ last' = h
    /\ UNCHANGED <<Settings, Detector>>

\* the reset button outside puzzle mode: a new board, reset_engine
HandleReset ==
    /\ EventsRead
    /\ board # <<>>
    /\ board' = <<>>
    /\ current_tactic' = None
    /\ last' = Hist("reset", "reset", <<>>, NoMove, FALSE)
    /\ NoSearch
    /\ UNCHANGED <<Settings, Detector>>

Next ==
    \/ PlayTacticMove
    \/ PlayMateMove
    \/ PlayOnlyMove
    \/ PlaySearch
    \/ PlayFoundTactic
    \/ PlayNormalMove
    \/ PlayCompletingMove
    \/ SearchDrop
    \/ SearchCheckmate
    \/ SearchEngineNode
    \/ SearchPlayerNode
    \/ SearchReturn
    \/ HandleClick
    \/ HandleUndo
    \/ HandleReset

Spec == Init /\ [][Next]_vars

----------------------------------------------------------------------------
(* tactic_search on its own: one call, from any position, whatever the     *)
(* settings and the depth budget (the calls of _handle_undo and _run)      *)

\* the positions of the game: the legal move sequences from the start
Positions == Lines(<<>>, MaxPly)

SearchInit ==
    /\ board \in Positions
    /\ player_colour \in {WHITE, BLACK}
    /\ difficulty \in 0..2
    /\ tactic_types \in TypeSets
    /\ depth_budget \in 1..MaxBudget
    /\ current_tactic = None
    /\ search_queue = StartQueue(board)
    /\ initial_board = SearchRoot(board)
    /\ pc = "search"
    /\ caller = "tactic_search"
    /\ queries = 0
    /\ last = [op |-> "tactic_search", path |-> "search", had |-> FALSE,
               an |-> <<>>, an2 |-> <<>>, ret |-> NoMove, searched |-> TRUE]
    /\ position = NoBoard
    /\ detected = NoDetection

SearchNext ==
    \/ SearchDrop
    \/ SearchCheckmate
    \/ SearchEngineNode
    \/ SearchPlayerNode

\* the while loop keeps running while the queue holds a node
SearchSpec == SearchInit /\ [][SearchNext]_vars /\ WF_vars(SearchNext)

----------------------------------------------------------------------------
(* play_move with a record, as a function of what it is given: any Active  *)
(* record and any position with the engine to move, in step or not (the    *)
(* board is the caller's object, the record is the engine's)               *)

\* the records of at most two moves, at any cursor
Records ==
    {[Tactic(seq, 0, Fork) EXCEPT !.index = i] :
        seq \in UNION {[1..n -> WhiteMoves \cup BlackMoves] : n \in 1..2},
        i \in 0..2}

ConsumeInit ==
    /\ board \in Positions
    /\ player_colour \in {WHITE, BLACK}
    /\ EngineToMove
    /\ difficulty \in 0..2
    /\ tactic_types \in TypeSets
    /\ depth_budget = max_search_depth
    /\ \E t \in Records : t.index <= Len(t.sequence) /\ current_tactic = <<t>>
    /\ search_queue = <<>>
    /\ initial_board = <<>>
    /\ pc = "idle"
    /\ caller = "none"
    /\ queries = 0
    /\ last = [op |-> "init", path |-> "init", had |-> FALSE, an |-> <<>>,
               an2 |-> <<>>, ret |-> NoMove, searched |-> FALSE]
    /\ position = NoBoard
    /\ detected = NoDetection

\* _make_engine_move once: play_move (with end_tactic's search when the
\* record is used up), then the push
ConsumeNext ==
    \/ PlayTacticMove
    \/ SearchDrop
    \/ SearchCheckmate
    \/ SearchEngineNode
    \/ SearchPlayerNode
    \/ PlayCompletingMove

ConsumeSpec == ConsumeInit /\ [][ConsumeNext]_vars

----------------------------------------------------------------------------
(* The detectors on their own: _position_tactic_check's four calls on any  *)
(* board one move after any placement of the two kings and a few more      *)
(* pieces, with every follow-up move the search can hand them              *)

\* the pieces set up besides the kings: pawns, rooks and queens
ExtraPieces == {Piece(t, c) : t \in {"P", "R", "Q"}, c \in {WHITE, BLACK}}

Place(w, k, f) ==
    [s \in Squares |->
        IF s = w THEN Piece("K", WHITE)
        ELSE IF s = k THEN Piece("K", BLACK)
        ELSE IF s \in DOMAIN f THEN f[s] ELSE NoPiece]

\* chess.Board with the pieces set up and nothing played: the side that is
\* not to move is not in check
StartBoard(n, w, k, f, c) ==
    [at |-> Place(w, k, f), turn |-> c, move_stack |-> <<>>, files |-> n]

SetUp(b) == ~is_attacked_by(b, b.turn, king(b, ~b.turn))

\* the detectors that report a square
Hits(d) ==
    {k \in {Fork, Skewer, AbsolutePin, RelativePin} :
        (k = Fork /\ d.fork # <<>>) \/ (k = Skewer /\ d.skewer # <<>>)
        \/ (k = AbsolutePin /\ d.absolute_pin # <<>>)
        \/ (k = RelativePin /\ d.relative_pin # <<>>)}

DetectorInit ==
    /\ board = <<>>
    /\ player_colour = WHITE
    /\ difficulty = 0
    /\ tactic_types = TACTIC_TYPES
    /\ depth_budget = max_search_depth
    /\ current_tactic = None
    /\ search_queue = <<>>
    /\ initial_board = <<>>
    /\ pc = "idle"
    /\ caller = "none"
    /\ queries = 0
    /\ last = [op |-> "init", path |-> "init", had |-> FALSE, an |-> <<>>,
               an2 |-> <<>>, ret |-> NoMove, searched |-> FALSE]
    /\ \E n \in Widths : \E w \in Squares : \E k \in Squares \ {w} :
         \E X \in {Y \in SUBSET (Squares \ {w, k}) : Cardinality(Y) <= MaxExtras} :
           \E f \in [X -> ExtraPieces], c \in {WHITE, BLACK} :
              /\ SetUp(StartBoard(n, w, k, f, c))
              /\ position = StartBoard(n, w, k, f, c)
    /\ detected = NoDetection

Game == <<board, current_tactic, search_queue, initial_board, pc, caller,
          queries, last, Settings>>

\* next_board.push(move): the move the detectors are asked about
PushMove ==
    /\ position.move_stack = <<>>
    /\ \E m \in legal_moves(position) : position' = push(position, m)
    /\ detected' = NoDetection
    /\ UNCHANGED Game

\* the detectors playing the follow-up move on the board they are given
\* instead of on a copy of it
PositionTacticCheckInPlace ==
    /\ ~detected.called
    /\ \E engine_move \in {NoNextMove} \cup legal_moves(position) :
         /\ detected' = [NoDetection EXCEPT
                            !.called = TRUE,
                            !.next_move = engine_move,
                            !.fork = fork(position, engine_move),
                            !.skewer = skewer(position, engine_move),
                            !.absolute_pin = absolute_pin(position, engine_move),
                            !.relative_pin = relative_pin(position, engine_move)]
         /\ position' = IF engine_move = NoNextMove THEN position
                        ELSE push(position, engine_move)
    /\ UNCHANGED Game

\* _position_tactic_check(board, engine_move) with every kind enabled; the
\* follow-up move is None or a legal move of the side to move
PositionTacticCheck ==
    /\ ~detected.called
    /\ \E engine_move \in {NoNextMove} \cup legal_moves(position) :
         LET d == [called |-> TRUE,
                   next_move |-> engine_move,
                   fork |-> fork(position, engine_move),
                   skewer |-> skewer(position, engine_move),
                   absolute_pin |-> absolute_pin(position, engine_move),
                   relative_pin |-> relative_pin(position, engine_move),
                   type |-> -1]
         IN detected' = [d EXCEPT !.type = position_tactic_check(Hits(d))]
    /\ UNCHANGED position
    /\ UNCHANGED Game

DetectorNext == PushMove \/ PositionTacticCheck

DetectorSpec == DetectorInit /\ [][DetectorNext]_vars

----------------------------------------------------------------------------
(* tactic_search or the detectors, each on its own and on any input: the   *)
(* calls that are handed a position                                        *)

FrameInit == SearchInit \/ DetectorInit

FrameNext == SearchNext \/ DetectorNext

FrameSpec == FrameInit /\ [][FrameNext]_vars

----------------------------------------------------------------------------
(* EvaluationBenchmark.play_tactic_game: the tactics engine against an     *)
(* opponent engine that answers with any legal move; player_colour is the  *)
(* opponent's colour (the detector counts of the loop are not modelled)    *)

BenchInit ==
    /\ Init
    /\ tactic_types = TACTIC_TYPES

\* the loop's variable `move`: what play_move returned last, the last move on
\* the board when the opponent is to reply
BenchMove == IF board = <<>> THEN NoMove ELSE board[Len(board)]

\* the record test after the opponent's reply: the comparison is with `move`
reply_ends_tactic(t, move, reply) ==
    NextMoveOf(t) # move \/ Completed(next_move(t))

\* the opponent's turn: engine.play, the push, then the record test
OpponentReply ==
    /\ pc = "idle" /\ ~IsGameOver(board) /\ Turn(board) # engine_colour
    /\ \E reply \in LegalMoves(board) :
         LET h == Hist("reply", "kept", <<>>, NoMove, FALSE)
         IN /\ board' = Push(board, reply)
            /\ IF current_tactic = None
               THEN /\ last' = [h EXCEPT !.path = "plain"]
                    /\ NoSearch
                    /\ UNCHANGED current_tactic
               ELSE LET t == current_tactic[1]
                    IN IF ~CanNext(t)
                       THEN /\ pc' = "error"
                            /\ last' = [h EXCEPT !.path = "IndexError"]
                            /\ UNCHANGED <<current_tactic, search_queue,
                                           initial_board, caller, queries>>
                       ELSE IF reply_ends_tactic(t, BenchMove, reply)
                       THEN \* end_tactic
                            /\ current_tactic' = None
                            /\ BeginSearch(Push(board, reply), "reply")
                            /\ last' = [h EXCEPT !.searched = TRUE,
                                                  !.path = "discard"]
                       ELSE /\ current_tactic' = <<next_move(t)>>
                            /\ last' = h
                            /\ NoSearch
    /\ UNCHANGED <<Settings, Detector>>

\* end_tactic's search returns to the loop
ReplySearchReturn ==
    /\ pc = "search" /\ search_queue = <<>> /\ caller = "reply"
    /\ pc' = "idle"
    /\ queries' = 0
    /\ UNCHANGED <<board, current_tactic, search_queue, initial_board, caller,
                   last, Settings, Detector>>

BenchNext ==
    \/ PlayTacticMove
    \/ PlayMateMove
    \/ PlayOnlyMove
    \/ PlaySearch
    \/ PlayFoundTactic
    \/ PlayNormalMove
    \/ PlayCompletingMove
    \/ SearchDrop
    \/ SearchCheckmate
    \/ SearchEngineNode
    \/ SearchPlayerNode
    \/ OpponentReply
    \/ ReplySearchReturn

BenchSpec == BenchInit /\ [][BenchNext]_vars

----------------------------------------------------------------------------
(* Properties *)

Active == current_tactic # None
Record == current_tactic[1]

PlayMoveReturned == pc = "idle" /\ last.op = "play_move"
ClickStep == pc = "idle" /\ last'.op = "click" /\ Len(board') = Len(board) + 1
UndoStep == pc = "idle" /\ last'.op = "undo" /\ Len(board) >= 2
               /\ board' = Pop2(board)

\* C1: while a record exists its cursor satisfies 0 <= index <= len(sequence),
\* whatever engine moves, human moves and undos have acted on it.
C1_CursorInRange ==
    Active => (0 <= Record.index /\ Record.index <= Len(Record.sequence))

\* a record rewound to its start by an undo after two consumptions
C1_Witness ==
    /\ Active /\ last.op = "undo"
    /\ Record.index = 0 /\ Len(Record.sequence) >= 3

\* C2: when play_move returns after consuming a move that took the cursor
\* past the final index, the record has been cleared.
C2_CompletedRecordCleared ==
    PlayMoveReturned => (Active => ~Completed(Record))

\* C3: a human move that differs from the move the Active record expects
\* discards the record and starts a search at the position after that move;
\* an empty slot is only ever filled by a search, with a record at cursor 0,
\* so no later play_move continues the discarded record.
C3_DeviationDiscards ==
    [][/\ (ClickStep /\ Active /\ CanNext(Record)
             /\ NextMoveOf(Record) # board'[Len(board')])
          => /\ current_tactic' = None
             /\ pc' = "search"
             /\ initial_board' = board'
             /\ search_queue' = <<Node(board', 0, <<>>)>>
       /\ (~Active /\ current_tactic' # None)
          => (pc = "search" /\ current_tactic'[1].index = 0)]_vars

C3_Witness ==
    last.op = "click" /\ last.path = "deviate" /\ pc = "search" /\ ~Active

\* C4 as stated: whenever the oracle's top line is beyond the mate threshold,
\* record Active or not, play_move returns that line's first move, runs no
\* search and leaves the record alone.
C4_MateFirstAlways ==
    (last.op = "play_move" /\ last.an # <<>>
       /\ last.an[1].score > MateThreshold /\ last.path # "IndexError")
    => (last.ret = last.an[1].move /\ ~last.searched)

\* C4 amended: with no record Active, a top line beyond the mate threshold
\* makes play_move return that line's first move at once: no search is run
\* and no record is installed.
C4_MateFirstWhenInactive ==
    (last.op = "play_move" /\ ~last.had /\ last.an # <<>>
       /\ last.an[1].score > MateThreshold)
    => /\ pc = "idle"
       /\ last.ret = last.an[1].move
       /\ board # <<>> /\ board[Len(board)] = last.ret
       /\ ~last.searched
       /\ ~Active

\* both lines are mate lines, so only the mate test makes the move obvious
C4_Witness ==
    /\ PlayMoveReturned /\ ~last.had /\ Len(last.an) = 2
    /\ last.an[1].score > MateThreshold /\ last.an[2].score > MateThreshold

\* C5: with no record Active and the top score not beyond the mate
\* threshold, a single line, or two lines at least only_move_bound apart,
\* make play_move return the top line's first move without a search, and no
\* record exists afterwards.
C5_OnlyMoveShortcut ==
    (last.op = "play_move" /\ ~last.had /\ last.an # <<>>
       /\ last.an[1].score <= MateThreshold
       /\ (Len(last.an) = 1
             \/ last.an[1].score - last.an[2].score >= only_move_bound))
    => /\ pc = "idle"
       /\ last.ret = last.an[1].move
       /\ ~last.searched
       /\ ~Active

\* two lines exactly the margin apart
C5_Witness ==
    /\ PlayMoveReturned /\ ~last.had /\ Len(last.an) = 2
    /\ last.an[1].score <= MateThreshold
    /\ last.an[1].score - last.an[2].score = only_move_bound

\* C6: an undo on an Active record with cursor >= 2 moves the cursor back by
\* exactly 2 and keeps the record (sequence, kind, score); no search starts.
C6_UndoRewindsByTwo ==
    [][(UndoStep /\ Active /\ Record.index >= 2)
       => /\ current_tactic' = <<[Record EXCEPT !.index = Record.index - 2]>>
          /\ pc' = "idle"
          /\ search_queue' = search_queue
          /\ ~last'.searched]_vars

C6_Witness ==
    /\ pc = "idle" /\ last.op = "undo" /\ last.had /\ ~last.searched
    /\ Active

\* C7 as stated: an undo on an Active record with cursor 1 keeps that record
\* Active with cursor 0.
C7_UndoAtOneKeeps ==
    [][(UndoStep /\ Active /\ Record.index = 1)
       => current_tactic' = <<[Record EXCEPT !.index = 0]>>]_vars

\* C7 amended: an undo on an Active record with cursor 1 discards it and
\* searches again from the position after the two pops, as with cursor 0; the
\* record is kept exactly when the cursor is >= 2.
C7_UndoBelowTwoDiscards ==
    [][(UndoStep /\ Active)
       => IF Record.index >= 2
          THEN current_tactic' # None /\ pc' = "idle"
          ELSE /\ current_tactic' = None
               /\ pc' = "search"
               /\ initial_board' = board'
               /\ search_queue' = <<Node(board', 0, <<>>)>>]_vars

C7_Witness ==
    /\ pc = "search" /\ last.op = "undo" /\ last.had /\ last.searched
    /\ ~Active /\ search_queue = <<Node(board, 0, <<>>)>>

\* C8 as stated: one consumption followed by an undo gives back the record
\* as it was.
C8_RoundTripOfOne ==
    (Active /\ CanNext(Record))
    => undo_tactic_move(next_move(Record)) = <<Record>>

\* C8 amended: one move pair consumed (two consumptions) followed by an undo
\* gives back the record as it was: same cursor, same sequence.
C8_RoundTripOfPair ==
    (Active /\ CanNext(Record) /\ CanNext(next_move(Record)))
    => undo_tactic_move(next_move(next_move(Record))) = <<Record>>

\* a record whose pair was consumed in the game is back where it was
C8_Witness ==
    /\ pc = "idle" /\ last.op = "undo" /\ Active
    /\ CanNext(Record) /\ CanNext(next_move(Record))
    /\ Len(board) + 2 <= MaxPly

\* C9: the search that _select_tactic_move triggers on completion is rooted
\* at the position with the completing move applied.
C9_SearchRootIsNewPosition ==
    (pc = "search" /\ caller = "select_tactic")
    => initial_board = Push(board, last.ret)

\* the lowest line among those with evaluation >= 0, else the best line
FallbackAsStated(an) ==
    LET ok == {i \in 1..Len(an) : an[i].score >= 0}
    IN IF ok = {} THEN {an[1].move}
       ELSE {an[i].move : i \in {j \in ok : \A k \in ok : an[j].score <= an[k].score}}

\* C10 as stated: the fallback returns the first move of the line with the
\* lowest evaluation among those >= 0, or of the best line if there is none.
C10_LowestNonNegative ==
    (PlayMoveReturned /\ last.an2 # <<>>) => last.ret \in FallbackAsStated(last.an2)

\* C10 amended: the fallback returns the first move of the first line, best
\* first, whose evaluation is <= 0; if every line is above 0 it returns the
\* first move of the last line.
C10_FirstNonPositive ==
    (PlayMoveReturned /\ last.an2 # <<>>)
    => \E i \in 1..Len(last.an2) :
         /\ last.ret = last.an2[i].move
         /\ \A j \in 1..(i - 1) : last.an2[j].score > 0
         /\ (last.an2[i].score <= 0 \/ i = Len(last.an2))
         /\ ~last.had /\ ~Active /\ last.searched

\* the best line is level, the second loses
C10_Witness ==
    /\ PlayMoveReturned /\ Len(last.an2) = 2
    /\ last.an2[1].score = 0 /\ last.an2[2].score < 0

\* C11: a record that tactic_search creates has a kind of the enabled set:
\* the detector check answers an enabled kind or -1 whatever the detectors
\* report, the record in the slot has an enabled kind, and with the empty
\* enabled set no record ever exists.
C11_OnlyEnabledKinds ==
    /\ \A hits \in Detections : position_tactic_check(hits) \in tactic_types \cup {-1}
    /\ Active => Record.type \in tactic_types
    /\ tactic_types = {} => ~Active

\* a detector record found while the pins and the skewer are switched off
C11_Witness ==
    /\ Active /\ Record.type = Fork /\ Record.index = 0
    /\ tactic_types = {Checkmate, Fork}

\* the least integer >= n / 2, for n >= 0
CeilHalf(n) == (n + 1) \div 2

\* C14: for the record in the slot and every cursor value from 0 to
\* len(sequence), moves_left is ceil((len(sequence) - index) / 2) and >= 0.
C14_MovesLeft ==
    Active => \A i \in 0..Len(Record.sequence) :
                LET t == [Record EXCEPT !.index = i]
                IN /\ moves_left(t) = CeilHalf(Len(t.sequence) - i)
                   /\ moves_left(t) >= 0

\* a record of three moves or more with its cursor inside
C14_Witness ==
    /\ Active /\ Len(Record.sequence) >= 3 /\ Record.index = 1
    /\ moves_left(Record) = CeilHalf(Len(Record.sequence) - 1)

----------------------------------------------------------------------------
(* Properties of tactic_search *)

HeadNode == Head(search_queue)
AtNode == Searching /\ ~Dropped(HeadNode)
AtEngineNode == AtNode /\ Turn(HeadNode.board) = engine_colour
AtPlayerNode == AtNode /\ Turn(HeadNode.board) # engine_colour
NodeAnalyses(k) ==
    Analyses(HeadNode.board, NodePV(HeadNode.board, HeadNode.depth), k)
SuccessorOf(node, move) ==
    Node(Push(node.board, move), node.depth + 1, Append(node.sequence, move))

\* C12: tactic_search terminates: a pass of the loop removes the head node; a
\* node at the depth budget or with the game over is removed without a query
\* and without successors; every node a pass adds has the head's depth plus
\* one; and so every call eventually has no node left to process, for good
\* (the queue is empty, a record was built, or an exception ended the call).
C12_SearchTerminates ==
    /\ [][Searching =>
            /\ (Dropped(HeadNode) =>
                  /\ search_queue' = Tail(search_queue)
                  /\ queries' = queries
                  /\ current_tactic' = current_tactic)
            /\ \/ search_queue' = <<>>
               \/ /\ Len(search_queue') >= Len(search_queue) - 1
                  /\ \A j \in 1..Len(search_queue') :
                       IF j <= Len(search_queue) - 1
                       THEN search_queue'[j] = search_queue[j + 1]
                       ELSE search_queue'[j].depth = HeadNode.depth + 1]_vars
    /\ <>[](~Searching)

\* a node that reached the depth budget before the game ended is at the head
C12_Witness ==
    /\ Searching /\ HeadNode.depth = depth_budget /\ depth_budget >= 2
    /\ ~IsGameOver(HeadNode.board)

\* the most lines a node asks the oracle for: no position has more legal moves
BranchBound ==
    CHOOSE n \in 0..Cardinality(WhiteMoves \cup BlackMoves) :
        /\ \E p \in Positions : Cardinality(LegalMoves(p)) = n
        /\ \A p \in Positions : Cardinality(LegalMoves(p)) <= n

RECURSIVE Power(_, _)
Power(b, e) == IF e = 0 THEN 1 ELSE b * Power(b, e - 1)

\* the nodes of a tree of d levels in which every other level branches b ways
RECURSIVE TreeBound(_, _)
TreeBound(b, d) ==
    IF d = 0 THEN 0 ELSE TreeBound(b, d - 1) + Power(b, d \div 2)

\* C13 as stated: one tactic_search call issues at most (branching factor
\* bound x depth budget) oracle queries.
C13_QueriesLinear == queries <= BranchBound * depth_budget

\* C13 amended: one tactic_search call issues at most one query per node of
\* its tree: with B the most lines asked for and D the depth budget, at most
\* the sum over d < D of B ^ ceil(d / 2) queries.
C13_QueriesWithinTree == queries <= TreeBound(BranchBound, depth_budget)

\* a search that has issued more than B x D queries
C13_Witness ==
    /\ pc = "search" /\ queries > BranchBound * depth_budget
    /\ queries = TreeBound(BranchBound, depth_budget)

\* C17 as stated: at every node that is processed, whatever its depth, a best
\* score beyond the mate threshold with Checkmate enabled makes the search
\* build a Checkmate record.
C17_MateAtAnyDepth ==
    AtNode => \A a \in NodeAnalyses(1) :
                (a[1].score < -MateThreshold /\ Checkmate \in tactic_types)
                => CheckmateFound(HeadNode, a)

\* C17 amended: only at the root (depth 0) does a best score below -10000
\* (the engine is being mated) with Checkmate enabled make the search build a
\* Checkmate record, from the principal variation, and end; at deeper nodes
\* such a score is processed like any other.  A Checkmate record appears only
\* in a pass on a depth-0 node and empties the queue.
C17_MateAtRootOnly ==
    /\ [](AtNode => \A a \in NodeAnalyses(1) :
                      CheckmateFound(HeadNode, a)
                      <=> /\ HeadNode.depth = 0
                          /\ a[1].score < -MateThreshold
                          /\ Checkmate \in tactic_types)
    /\ [][(Searching /\ current_tactic' # current_tactic
             /\ current_tactic'[1].type = Checkmate)
          => /\ HeadNode.depth = 0
             /\ Checkmate \in tactic_types
             /\ current_tactic'[1].score < -MateThreshold
             /\ current_tactic'[1].index = 0
             /\ Len(current_tactic'[1].sequence) >= 1
             /\ search_queue' = <<>>]_vars

\* a detector record built at a deeper node whose best score is a mate score
C17_Witness ==
    /\ Active /\ Record.type = Fork /\ Record.score < -MateThreshold
    /\ Checkmate \in tactic_types /\ search_queue = <<>>

C19_AtMostOneSuccessor ==
    AtPlayerNode => \A a \in NodeAnalyses(2) : \A hits \in Detections :
        LET rest == Tail(search_queue)
            r == process_player_moves(HeadNode.board, HeadNode.depth,
                                      HeadNode.sequence, a, rest, a[1].score, hits)
        IN IF ~best_move_clear(a, a[1].score)
           THEN r.queue = rest /\ r.tactic = None /\ ~r.error
           ELSE /\ ~r.error
                /\ \/ r.tactic # None /\ r.queue = <<>>
                   \/ /\ r.tactic = None
                      /\ r.queue = Append(rest, SuccessorOf(HeadNode, a[1].pv[1]))

\* the lines of an analysis that _process_engine_moves is to expand
Expanded(a, depth) ==
    {i \in 1..Len(a) : IF depth = 0 THEN a[i].score >= min_bound
                       ELSE a[i].score >= a[1].score - err_bound}

\* C20 as stated: the best-scored candidate is expanded at every engine-turn
\* node, the root included.
C20_BestAlwaysExpanded ==
    AtEngineNode => \A a \in NodeAnalyses(1) :
        ~CheckmateFound(HeadNode, a) =>
            LET q == process_engine_moves(HeadNode.board, HeadNode.depth,
                                          HeadNode.sequence, a, Tail(search_queue),
                                          a[1].score)
            IN \E j \in 1..Len(q) : q[j] = SuccessorOf(HeadNode, a[1].pv[1])

\* C20 amended: at the root a candidate is expanded iff its score is >=
\* min_bound (an absolute bound of the difficulty level, whatever the best
\* score is); at deeper engine-turn nodes iff its score is >= the best score
\* - err_bound, so there the best candidate is always expanded.  The queue
\* gains exactly one successor per expanded candidate, in line order: the
\* move applied, depth + 1, the sequence extended by the move.
C20_EngineNodeExpansion ==
    AtEngineNode => \A a \in NodeAnalyses(1) :
        LET rest == Tail(search_queue)
            q == process_engine_moves(HeadNode.board, HeadNode.depth,
                                      HeadNode.sequence, a, rest, a[1].score)
            exp == Expanded(a, HeadNode.depth)
        IN /\ Len(q) = Len(rest) + Cardinality(exp)
           /\ SubSeq(q, 1, Len(rest)) = rest
           /\ \A i \in exp :
                q[Len(rest) + Cardinality({k \in exp : k <= i})]
                    = SuccessorOf(HeadNode, a[i].pv[1])
           /\ HeadNode.depth > 0 => 1 \in exp

\* the root expanded both candidates; a deeper engine-turn node is next
C20_Witness ==
    /\ pc = "search" /\ Len(search_queue) >= 2
    /\ \A j \in 1..Len(search_queue) : search_queue[j].depth = 1
    /\ Turn(initial_board) = engine_colour
    /\ search_queue[1].sequence # search_queue[2].sequence

----------------------------------------------------------------------------
(* Properties of the record's consumption *)

\* the position play_move was called in: the move is on the board once the
\* handler is through
CalledIn ==
    IF pc = "idle" THEN SubSeq(board, 1, Len(board) - 1) ELSE board

\* C15: a record move that is not legal in the position play_move is called
\* in is never returned by play_move nor applied to the board: once
\* play_move has handed out a record move, that move was legal there.
C15_IllegalMoveNeverPlayed ==
    (last.op = "play_move" /\ last.had /\ last.path \in {"continue", "complete"})
    => last.ret \in LegalMoves(CalledIn)

----------------------------------------------------------------------------
(* Properties of the detectors *)

\* the squares a detector returned
Reported(list) == {list[i] : i \in DOMAIN list}

\* the pieces on the squares S stood there one ply earlier
Stood(b, S) == \A q \in S : pop(b).at[q] = b.at[q]

\* the pattern on a square was on the board one ply earlier: the same
\* attacker on the same square, the same piece attacked, the same piece
\* behind or in front of it
OldAbsolutePin(b, square) ==
    LET pinning_square == absolute_pinner(b, b.turn, square)
    IN /\ pinning_square # NoSquare
       /\ absolute_pinner(pop(b), b.turn, square) = pinning_square
       /\ Stood(b, {square, pinning_square, king(b, b.turn)})

OldRelativePin(b, valued_square, pin_square) ==
    LET pinning_square == relative_pinner(b, b.turn, pin_square, valued_square)
    IN /\ pinning_square # NoSquare
       /\ relative_pinner(pop(b), b.turn, pin_square, valued_square) = pinning_square
       /\ Stood(b, {pin_square, pinning_square, valued_square})

OldSkewer(b, valued_square, skewered_square) ==
    LET skewering_square ==
            relative_pinner(b, b.turn, valued_square, skewered_square)
    IN /\ skewering_square # NoSquare
       /\ relative_pinner(pop(b), b.turn, valued_square, skewered_square)
            = skewering_square
       /\ Stood(b, {skewered_square, skewering_square, valued_square})

\* a detector has been called on a board with a move on its stack
Detected == detected.called /\ position.move_stack # <<>>

\* C16: a detector reports a square only for a pattern the last move made:
\* a pinned square has a pin that was not on the board one ply earlier, a
\* skewered square a skewer that was not, and a fork is by the piece that
\* has just arrived on its square
C16_OnlyNewPatterns ==
    Detected =>
        LET b == position
            engine_move == detected.next_move
        IN /\ \A s \in Reported(detected.absolute_pin) : ~OldAbsolutePin(b, s)
           /\ \A s \in Reported(detected.relative_pin) :
                \E v \in occupied_co(b, b.turn) :
                    /\ relative_pin_at(b, engine_move, v, s)
                    /\ ~OldRelativePin(b, v, s)
           /\ \A s \in Reported(detected.skewer) :
                \E v \in occupied_co(b, b.turn) :
                    /\ skewer_at(b, engine_move, s, v) = "found"
                    /\ ~OldSkewer(b, v, s)
           /\ \A s \in Reported(detected.fork) :
                pop(b).at[peek(b).to_square] # b.at[peek(b).to_square]

----------------------------------------------------------------------------
(* Properties of the search order *)

\* the nodes of a queue stand in non-decreasing depth
DepthOrdered(q) ==
    \A i \in 1..Len(q) : \A j \in i..Len(q) : q[i].depth <= q[j].depth

\* C21: the queue is first in, first out: its nodes stand in non-decreasing
\* depth and the head is taken, so when a pass builds a detector-confirmed
\* record (whatever the oracle and the detectors answer at the head node) the
\* record has the head's depth plus one moves and no node still waiting could
\* give a shorter one.
C21_ShortestFirst ==
    /\ pc = "search" => DepthOrdered(search_queue)
    /\ AtPlayerNode =>
         \A a \in NodeAnalyses(2) : \A hits \in Detections :
            LET r == process_player_moves(HeadNode.board, HeadNode.depth,
                                          HeadNode.sequence, a,
                                          Tail(search_queue), a[1].score, hits)
            IN (r.tactic # None /\ ~CheckmateFound(HeadNode, a)) =>
                 /\ Len(r.tactic[1].sequence) = HeadNode.depth + 1
                 /\ \A j \in 1..Len(search_queue) :
                      Len(r.tactic[1].sequence) <= search_queue[j].depth + 1

\* a human-turn node below the root is the head while deeper nodes wait
C21_Witness ==
    /\ AtPlayerNode /\ HeadNode.depth >= 1
    /\ Len(search_queue) >= 2
    /\ search_queue[Len(search_queue)].depth > HeadNode.depth
    /\ Fork \in tactic_types

----------------------------------------------------------------------------
(* Properties of the record across the game loop *)

\* C22: next_move is never called on a record whose cursor is past its final
\* index: whenever the game loop is about to handle an event or an engine
\* move with a record installed, index <= max_index, and no handler has
\* ended with sequence[index] read outside the sequence.
C22_ConsumedWithinSequence ==
    /\ (pc = "idle" /\ Active) => Record.index <= Len(Record.sequence) - 1
    /\ last.path # "IndexError"

----------------------------------------------------------------------------
(* Properties of the positions handed to the search and to the detectors *)

\* a step of _position_tactic_check
DetectorsCalled == ~detected.called /\ detected'.called

----------------------------------------------------------------------------
(* Properties of the benchmark loop *)

\* the opponent engine's reply is pushed while a record can be read
ReplyStep ==
    /\ pc = "idle" /\ last'.op = "reply" /\ Len(board') = Len(board) + 1
    /\ Active /\ CanNext(Record)

\* C24: after the opponent's reply with a record Active, the record is kept
\* (with its cursor moved on) exactly when the move the opponent played is
\* the record's next expected move and moves remain after it.
C24_KeptIffReplyExpected ==
    [][ReplyStep =>
         (current_tactic' = <<next_move(Record)>>
            <=> /\ NextMoveOf(Record) = board'[Len(board')]
                /\ ~Completed(next_move(Record)))]_vars


----------------------------------------------------------------------------
(* The fork detector's targets *)

\* the piece that has just moved and the pieces of the side to move it attacks
ForkingSquare == peek(position).to_square
AttackedPieces == attacks(position, ForkingSquare) \cap occupied_co(position, position.turn)

\* the pieces of either side that attack a square of the side to move
ForkAttackers(square) == attackers(position, ~position.turn, square)
ForkDefenders(square) == attackers(position, position.turn, square)

\* the fork detector has answered with a list of targets
ForkReported == Detected /\ detected.fork # <<>>

\* a king, or a piece worth more than the forking piece
KingOrWorthMore(square) ==
    \/ position.at[square].piece_type = "K"
    \/ Value(position, square) > Value(position, ForkingSquare)

\* C25 as stated: an attacked piece is reported as a target exactly when
\* it is the king, or is worth more than the forking piece, or has no
\* defender at all
C25_TargetIffUndefended ==
    ForkReported =>
        \A square \in AttackedPieces :
            square \in Reported(detected.fork)
                <=> (KingOrWorthMore(square) \/ ForkDefenders(square) = {})

\* C25 amended: an attacked piece is reported as a target exactly when it
\* is the king, or is worth more than the forking piece, or has more
\* attackers than defenders
C25_TargetIffOutnumbered ==
    ForkReported =>
        \A square \in AttackedPieces :
            square \in Reported(detected.fork)
                <=> \/ KingOrWorthMore(square)
                    \/ Cardinality(ForkAttackers(square))
                         > Cardinality(ForkDefenders(square))

\* a reported target that is no king, is worth no more than the forking
\* piece and has a defender
C25_Witness ==
    /\ ForkReported
    /\ \E square \in Reported(detected.fork) :
          /\ ~KingOrWorthMore(square)
          /\ ForkDefenders(square) # {}


\* C26: the fork detector answers with the empty list whenever the square
\* the forking piece has just moved to is attacked by the side to move,
\* with or without a follow-up move and whatever the follow-up is
C26_AttackedForkerNeverForks ==
    (Detected /\ is_attacked_by(position, position.turn, ForkingSquare))
        => detected.fork = <<>>


----------------------------------------------------------------------------
(* The skewer detector's answer *)

\* the skewer detector has answered with a square
SkewerReported == Detected /\ detected.skewer # <<>>
SkeweredSquare == detected.skewer[1]

\* an enemy piece that slides along the line it shares with a square
EnemySliders(square) ==
    {q \in occupied_co(position, ~position.turn) :
        \/ (OnFile(position, q, square) \/ OnRank(position, q, square))
             /\ q \in sliders(position)
        \/ OnDiag(position, q, square) /\ q \in diagonal_sliders(position)}

Friends == occupied_co(position, position.turn)

\* C27 as stated: the square reported is the front piece, the only piece
\* between an enemy slider and a friendly piece worth more than it
C27_FrontPieceReported ==
    SkewerReported =>
        \E behind \in Friends \ {SkeweredSquare} :
            \E slider \in EnemySliders(behind) :
                /\ Value(position, behind) > Value(position, SkeweredSquare)
                /\ between(position, slider, behind) \cap occupied(position)
                     = {SkeweredSquare}

\* C27 amended: the square reported is the back piece, no king; the only
\* piece between it and an enemy slider is a friendly piece, no pawn, worth
\* at least as much as the reported piece and more than the slider
C27_BackPieceReported ==
    SkewerReported =>
        /\ SkeweredSquare \in Friends \ kings(position)
        /\ \E front \in Friends \ (pawns(position) \cup {SkeweredSquare}) :
             \E slider \in EnemySliders(SkeweredSquare) :
                /\ Value(position, front) >= Value(position, SkeweredSquare)
                /\ Value(position, front) > Value(position, slider)
                /\ between(position, slider, SkeweredSquare) \cap occupied(position)
                     = {front}

\* a square is reported with nothing behind it on the slider's line
C27_Witness ==
    /\ SkewerReported
    /\ \A behind \in Friends \ {SkeweredSquare} :
          \A slider \in EnemySliders(behind) :
              SkeweredSquare \notin between(position, slider, behind)


\* the passes of skewer's scan on the board the detectors were called on
SkewerPairs ==
    ScanPairs(Friends \ kings(position), Friends \ pawns(position))

\* the slider skewer's pass n looks at, or NoSquare
SkeweringSquare(n) ==
    relative_pinner(position, position.turn, SkewerPairs[n][2], SkewerPairs[n][1])

\* the passes that come as far as the test of the follow-up move
CaptureTested ==
    {n \in DOMAIN SkewerPairs :
        /\ SkewerPairs[n][1] # SkewerPairs[n][2]
        /\ Value(position, SkewerPairs[n][1]) <= Value(position, SkewerPairs[n][2])
        /\ SkeweringSquare(n) # NoSquare
        /\ Value(position, SkeweringSquare(n)) < Value(position, SkewerPairs[n][2])}

\* the first of them, which no earlier pass keeps the scan from
FirstTested == CHOOSE n \in CaptureTested : \A k \in CaptureTested : n <= k

\* the follow-up move captures the skewering piece of the first such pass
SkewererCaptured ==
    /\ Detected /\ detected.next_move # NoNextMove
    /\ CaptureTested # {}
    /\ detected.next_move.to_square = SkeweringSquare(FirstTested)

\* a piece of the skewering side defends the skewering piece
SkewererDefended ==
    is_attacked_by(position, ~position.turn, SkeweringSquare(FirstTested))

\* C28: when the follow-up move captures the skewering piece, the answer
\* is empty if no piece defends the skewering piece, and the pass is not
\* rejected for the capture if one does
C28_FreeCaptureRejects ==
    SkewererCaptured =>
        /\ ~SkewererDefended => detected.skewer = <<>>
        /\ SkewererDefended =>
              skewer_at(position, detected.next_move,
                        SkewerPairs[FirstTested][1], SkewerPairs[FirstTested][2])
                  # "empty"


\* C30 as stated: a fork answer that is not empty lists at least two
\* different squares, each a piece of the side to move attacked by the
\* piece that has just moved
C30_AtLeastTwoForked ==
    ForkReported =>
        /\ Cardinality(Reported(detected.fork)) >= 2
        /\ Reported(detected.fork) \subseteq AttackedPieces

\* C30 amended: the squares listed are different pieces of the side to
\* move attacked by the piece that has just moved, which attacks at least
\* two; there are at least two of them, or a follow-up move was given and
\* the king is one of them
C30_TwoForkedOrKing ==
    ForkReported =>
        /\ Cardinality(Reported(detected.fork)) = Len(detected.fork)
        /\ Reported(detected.fork) \subseteq AttackedPieces
        /\ Cardinality(AttackedPieces) >= 2
        /\ \/ Len(detected.fork) >= 2
           \/ /\ detected.next_move # NoNextMove
              /\ king(position, position.turn) \in Reported(detected.fork)

\* the fork detector answers with the king's square alone
C30_Witness ==
    /\ ForkReported
    /\ detected.fork = <<king(position, position.turn)>>


----------------------------------------------------------------------------
(* The shape of the queue and of the record the search builds *)

\* the side to move after the first n moves of a line from the search root
TurnAfter(n) == IF n % 2 = 0 THEN Turn(initial_board) ELSE ~Turn(initial_board)

\* C29: every node of the queue carries as many moves as its depth, between
\* 0 and max_search_depth; a record confirmed by a detector is built at a
\* human-turn node of depth d < max_search_depth (whatever the oracle and
\* the detectors answer there) from the node's d moves and the human's best
\* move, with cursor 0, and the record the search leaves has that shape
C29_QueueAndRecordShape ==
    /\ pc = "search" =>
         \A i \in 1..Len(search_queue) :
            /\ Len(search_queue[i].sequence) = search_queue[i].depth
            /\ search_queue[i].depth \in 0..depth_budget
    /\ AtPlayerNode =>
         \A a \in NodeAnalyses(2) : \A hits \in Detections :
            LET r == process_player_moves(HeadNode.board, HeadNode.depth,
                                          HeadNode.sequence, a,
                                          Tail(search_queue), a[1].score, hits)
            IN (r.tactic # None /\ ~CheckmateFound(HeadNode, a)) =>
                 /\ HeadNode.depth < depth_budget
                 /\ r.tactic[1].sequence = Append(HeadNode.sequence, a[1].pv[1])
                 /\ Len(r.tactic[1].sequence) = HeadNode.depth + 1
                 /\ r.tactic[1].index = 0
    /\ (Active /\ Record.type # Checkmate) =>
         /\ Record.index = 0
         /\ Len(Record.sequence) \in 1..depth_budget
         /\ TurnAfter(Len(Record.sequence) - 1) # engine_colour

\* the search has left a detector-confirmed record of more than one move
C29_Witness ==
    /\ Active /\ Record.type # Checkmate
    /\ search_queue = <<>>
    /\ Len(Record.sequence) >= 2

====
